---- MODULE Spec2Model ----
(***************************************************************************)
(* Combinatorial games of ludology: the Game value type, the order         *)
(* relation and its derived comparisons, negation and addition             *)
(* (ludology/games/game.py), the canonical-form engine with its lru_cache'd *)
(* rewriting passes, and the specialisation of its result to a Surreal or  *)
(* a Switch (ludology/canonical_form.py, games/surreal.py, games/switch.py). *)
(*                                                                         *)
(* A Game is the record [L |-> left set, R |-> right set]; two records are *)
(* equal exactly when the option sets are recursively equal, which is what *)
(* Game.__hash__ distinguishes (hash of the two frozensets).  A hash is    *)
(* therefore represented by the structure it is computed from.             *)
(***************************************************************************)
EXTENDS Integers, Sequences, FiniteSets, TLC

\* ------------------------------------------------------------------------
\* Bounds
\* ------------------------------------------------------------------------
MaxSize == 3      \* operands of the algebra: game trees with <= MaxSize edges
MaxCalls == 2     \* number of top-level canonical_form calls in a run
MaxNimber == 2    \* Nimber(n) for n in 0..MaxNimber
MaxNum == 2       \* numerators of the numbers handed to Game(v)
MaxExp == 1       \* their denominators are 2^e for e in 0..MaxExp
MaxDays == 4      \* birthdays of the two factors of a product, multiplied
MaxLimit == 4    \* the recursion limits asked for are 0..MaxLimit
MaxBlocks == 2   \* recursion_limit blocks nested in each other
DefaultLimit == 2   \* the recursion limit the interpreter starts with
MaxDay == 2      \* all_games_gen(n) is called for n in 0..MaxDay

\* ------------------------------------------------------------------------
\* Game values
\* ------------------------------------------------------------------------
MkGame(left, right) == [L |-> left, R |-> right]

zero == MkGame({}, {})
one == MkGame({zero}, {})
minus_one == MkGame({}, {zero})
star == MkGame({zero}, {zero})

Options(G) == G.L \cup G.R

RECURSIVE Size(_)
Size(G) ==
    LET RECURSIVE Sum(_)
        Sum(S) == IF S = {} THEN 0
                  ELSE LET o == CHOOSE x \in S : TRUE
                       IN  1 + Size(o) + Sum(S \ {o})
    IN  Sum(G.L) + Sum(G.R)

\* Game.__hash__: hash((frozenset(G._left), frozenset(G._right)))
Hash(G) == <<G.L, G.R>>

RECURSIVE GamesOfSize(_)
GamesOfSize(n) ==
    IF n <= 0 THEN {zero}
    ELSE LET prev == GamesOfSize(n - 1)
         IN  prev
             \cup { MkGame(g.L \cup {o}, g.R) :
                      <<g, o>> \in { p \in prev \X prev : Size(p[1]) + Size(p[2]) + 1 <= n } }
             \cup { MkGame(g.L, g.R \cup {o}) :
                      <<g, o>> \in { p \in prev \X prev : Size(p[1]) + Size(p[2]) + 1 <= n } }

\* ------------------------------------------------------------------------
\* Order relation (Game.__ge__ and the comparisons derived from it)
\* ------------------------------------------------------------------------
RECURSIVE Ge(_, _)
GeEitherSide(G, H) == (\A G_R \in G.R : ~Ge(H, G_R)) \/ (\A H_L \in H.L : ~Ge(H_L, G))

GeIgnoresLeftOfH(G, H) == \A G_R \in G.R : ~Ge(H, G_R)

Ge(G, H) ==
    LET a == \A G_R \in G.R : ~Ge(H, G_R)
        b == \A H_L \in H.L : ~Ge(H_L, G)
    IN  a /\ b

Le(G, H) == Ge(H, G)

GtNotStrict(G, H) == Ge(G, H)

Gt(G, H) == Ge(G, H) /\ ~Ge(H, G)

Lt(G, H) == Gt(H, G)

Eq(G, H) == IF Hash(G) = Hash(H) THEN TRUE ELSE Ge(G, H) /\ Ge(H, G)

Fuzzy(G, H) == ~(Ge(G, H) \/ Ge(H, G))

\* ------------------------------------------------------------------------
\* Classification used by the arithmetic (Game.is_number, Game.is_impartial)
\* ------------------------------------------------------------------------
RECURSIVE is_number(_)
is_number(G) ==
    LET a == \A o \in Options(G) : is_number(o)
        b == \A G_L \in G.L : \A G_R \in G.R : Lt(G_L, G_R)
    IN  a /\ b

RECURSIVE is_impartial(_)
is_impartial(G) == G.L = G.R /\ \A G_L \in G.L : is_impartial(G_L)

\* ------------------------------------------------------------------------
\* Arithmetic (Game.__neg__, __add__, __radd__, __sub__)
\* ------------------------------------------------------------------------
RECURSIVE Neg(_)
NegNoSwap(G) == MkGame({Neg(G_L) : G_L \in G.L}, {Neg(G_R) : G_R \in G.R})

NegShallow(G) == MkGame(G.R, G.L)

Neg(G) == MkGame({Neg(G_R) : G_R \in G.R}, {Neg(G_L) : G_L \in G.L})

RECURSIVE Add(_, _)
AddDropsSecond(G, H) ==
    MkGame({Add(H, G_L) : G_L \in G.L}, {Add(H, G_R) : G_R \in G.R})

Add(G, H) ==
    IF ~is_number(G) /\ is_number(H)
    THEN MkGame({Add(G_L, H) : G_L \in G.L}, {Add(G_R, H) : G_R \in G.R})
    ELSE IF is_number(G) /\ ~is_number(H)
    THEN MkGame({Add(H_L, G) : H_L \in H.L}, {Add(H_R, G) : H_R \in H.R})
    ELSE LET left_a == {Add(H, G_L) : G_L \in G.L}
             left_b == {Add(G, H_L) : H_L \in H.L}
             right_a == {Add(H, G_R) : G_R \in G.R}
             right_b == {Add(G, H_R) : H_R \in H.R}
         IN  MkGame(left_a \cup left_b, right_a \cup right_b)

RAdd(G, H) == Add(G, H)

Sub(G, H) == Add(G, Neg(H))

\* The disjoint sum as the docstring of Game.__add__ defines it:
\* G + H = {G + H_L, H + G_L | G + H_R, H + G_R}, at every level.
RECURSIVE DisjointSum(_, _)
DisjointSum(G, H) ==
    MkGame({DisjointSum(G_L, H) : G_L \in G.L} \cup {DisjointSum(G, H_L) : H_L \in H.L},
           {DisjointSum(G_R, H) : G_R \in G.R} \cup {DisjointSum(G, H_R) : H_R \in H.R})

\* Nimber.__init__(n) for an integer n: left = right = {Nimber(i) : i < n}
RECURSIVE Nimber(_)
Nimber(n) ==
    LET options == {Nimber(i) : i \in 0..(n - 1)}
    IN  MkGame(options, options)

\* Nimber.__neg__: a Nimber is returned as its own negative
NimberNeg(N) == N

\* ------------------------------------------------------------------------
\* The subtypes make_specific builds (games/surreal.py, games/switch.py).
\* An object of a subtype is the option sets G it was built from, its type t
\* and the attributes its constructor computed.  A constructor that takes
\* next(iter(s)) of a set yields one object for every element it can be
\* handed; a constructor that raises yields the exception.
\* ------------------------------------------------------------------------
Obj(G, t, n) == [G |-> G, t |-> t, n |-> n, mean |-> <<>>, temperature |-> <<>>]

Raise(exception) == Obj(zero, exception, <<>>)

\* fractions.Fraction with a denominator that is a power of two, in lowest terms
RECURSIVE Fraction(_, _)
Fraction(numerator, denominator) ==
    IF denominator > 1 /\ numerator % 2 = 0
    THEN Fraction(numerator \div 2, denominator \div 2)
    ELSE <<numerator, denominator>>

FractionAdd(a, b) == Fraction(a[1] * b[2] + b[1] * a[2], a[2] * b[2])

FractionSub(a, b) == Fraction(a[1] * b[2] - b[1] * a[2], a[2] * b[2])

FractionHalf(a) == Fraction(a[1], 2 * a[2])

\* Game.is_switch
is_switch(G) ==
    /\ Cardinality(G.L) = 1 /\ Cardinality(G.R) = 1
    /\ \E G_L \in G.L : \E G_R \in G.R :
          is_number(G_L) /\ is_number(G_R) /\ Gt(G_L, G_R)

\* the values Surreal.__init__ can give G._n
RECURSIVE SurrealN(_)
SurrealN(G) ==
    LET lfs == UNION {SurrealN(G_L) : G_L \in G.L}
        rfs == UNION {SurrealN(G_R) : G_R \in G.R}
    IN  IF Options(G) = {} THEN {Fraction(0, 1)}
        ELSE IF G.R = {} THEN {FractionAdd(lf, Fraction(1, 1)) : lf \in lfs}
        ELSE IF G.L = {} THEN {FractionSub(rf, Fraction(1, 1)) : rf \in rfs}
        ELSE {FractionHalf(FractionAdd(lf, rf)) : lf \in lfs, rf \in rfs}

\* Surreal(left=G.left, right=G.right)
Surreal(G) ==
    IF is_number(G)
    THEN {Obj(G, "Surreal", n) : n \in SurrealN(G)}
    ELSE {Raise("ValueError")}

\* Switch(left=G.left, right=G.right)
Switch(G) ==
    IF G.L = {} \/ G.R = {} \/ \E o \in Options(G) : ~is_number(o)
    THEN {Raise("ValueError")}
    ELSE UNION { IF Le(max_left, min_right)
                 THEN {Raise("ValueError")}
                 ELSE { [Obj(G, "Switch", <<>>) EXCEPT
                           !.mean = FractionHalf(FractionAdd(l, r)),
                           !.temperature = FractionHalf(FractionSub(l, r))]
                        : l \in SurrealN(max_left), r \in SurrealN(min_right) }
                 : max_left \in {x \in G.L : \A y \in G.L : ~Gt(y, x)},
                   min_right \in {x \in G.R : \A y \in G.R : ~Lt(y, x)} }

\* X == Y for two results of canonical_form: Surreal.__eq__ compares the
\* values n of two Surreals, every other pair goes to Game.__eq__
ObjEq(X, Y) ==
    IF X.t = "Surreal" /\ Y.t = "Surreal" THEN X.n = Y.n ELSE Eq(X.G, Y.G)

\* a >= b for two Fractions
FractionGe(a, b) == a[1] * b[2] >= b[1] * a[2]

\* Nimber(n) of games/nimber.py: the option sets of Nimber.__init__ and the
\* integer _n, kept as <<n>>
NimberObj(n) == Obj(Nimber(n), "Nimber", <<n>>)

\* Nimber(n) of the flat module ludology.nimber, a subclass of the Game of
\* ludology.game: the same option sets and _n
FlatNimberObj(n) == Obj(Nimber(n), "nimber.Nimber", <<n>>)

\* hash(X).  Game.__hash__ is hash((frozenset(_left), frozenset(_right)));
\* Surreal and the Nimber of games/nimber.py return super().__hash__(), Switch
\* inherits it; the Nimber of the flat module returns hash(G._n), the hash of
\* an integer.
ObjHash(X) == IF X.t = "nimber.Nimber" THEN X.n ELSE Hash(X.G)

\* X >= Y: Surreal.__ge__ compares the values n of two Surreals, every other
\* pair goes to Game.__ge__, which works on Game(X) and Game(Y)
ObjGe(X, Y) ==
    IF X.t = "Surreal" /\ Y.t = "Surreal" THEN FractionGe(X.n, Y.n) ELSE Ge(X.G, Y.G)

\* X == Y for any two objects: Nimber.__eq__ compares the integers n of two
\* Nimbers, otherwise as ObjEq
TypedEq(X, Y) ==
    IF X.t = Y.t /\ X.t \in {"Nimber", "nimber.Nimber"} THEN X.n = Y.n ELSE ObjEq(X, Y)

FractionMul(a, b) == Fraction(a[1] * b[1], a[2] * b[2])

RECURSIVE IsPowerOfTwo(_)
IsPowerOfTwo(d) == d = 1 \/ (d > 1 /\ d % 2 = 0 /\ IsPowerOfTwo(d \div 2))

\* the d of float(v).as_integer_ratio(), for a v of small size: the
\* denominator of v when it is a power of two (the float is exact); otherwise
\* the float is a 53-bit approximation, whose denominator is a power of two
\* no smaller than 2^30 for |v| < 2^22
FloatDenominator(v) == IF IsPowerOfTwo(v[2]) THEN v[2] ELSE 2^30

\* Game(left, right) for two sets of objects already built: the exception
\* of an option that raised, otherwise the Game on the options
GameOnOptions(left, right) ==
    IF \E o \in left \cup right : o.t # "Game"
    THEN CHOOSE o \in left \cup right : o.t # "Game"
    ELSE Obj(MkGame({o.G : o \in left}, {o.G : o \in right}), "Game", <<>>)

\* the number at which Game.__init__ refuses a denominator
MaxDenominator == 1024

\* Game(v) for a number v: Game.__init__, the branch of a number
RECURSIVE Game(_)
GameTwiceAsDeep(v) ==
    LET d == FloatDenominator(v)
    IN  IF v[2] = 1
        THEN IF v[1] = 0 THEN Obj(zero, "Game", <<>>)
             ELSE IF v[1] > 0
             THEN GameOnOptions({Game(FractionSub(v, Fraction(1, 1)))}, {})
             ELSE GameOnOptions({}, {Game(FractionAdd(v, Fraction(1, 1)))})
        ELSE IF d > 2 * MaxDenominator THEN Raise("ValueError")
        ELSE GameOnOptions({Game(FractionSub(v, Fraction(1, d)))},
                           {Game(FractionAdd(v, Fraction(1, d)))})

Game(v) ==
    LET d == FloatDenominator(v)
    IN  IF v[2] = 1
        THEN IF v[1] = 0 THEN Obj(zero, "Game", <<>>)
             ELSE IF v[1] > 0
             THEN GameOnOptions({Game(FractionSub(v, Fraction(1, 1)))}, {})
             ELSE GameOnOptions({}, {Game(FractionAdd(v, Fraction(1, 1)))})
        ELSE IF d > MaxDenominator THEN Raise("ValueError")
        ELSE GameOnOptions({Game(FractionSub(v, Fraction(1, d)))},
                           {Game(FractionAdd(v, Fraction(1, d)))})

\* the calls of Game.__init__ made for Game(v), this one included
RECURSIVE GameCalls(_)
GameCalls(v) ==
    LET d == FloatDenominator(v)
    IN  IF v[2] = 1
        THEN IF v[1] = 0 THEN 1
             ELSE IF v[1] > 0 THEN 1 + GameCalls(FractionSub(v, Fraction(1, 1)))
             ELSE 1 + GameCalls(FractionAdd(v, Fraction(1, 1)))
        ELSE IF d > MaxDenominator THEN 1
        ELSE 1 + GameCalls(FractionSub(v, Fraction(1, d)))
               + GameCalls(FractionAdd(v, Fraction(1, d)))

\* Game.birthday
RECURSIVE birthday(_)
birthday(G) ==
    IF Options(G) = {} THEN 0
    ELSE LET days == {birthday(o) : o \in Options(G)}
         IN  1 + CHOOSE d \in days : \A e \in days : e <= d

\* Game.is_dicotic
RECURSIVE is_dicotic(_)
DicoticNeedsOptions(G) ==
    /\ G.L # {} /\ G.R # {}
    /\ \A o \in Options(G) : is_dicotic(o)

is_dicotic(G) ==
    /\ (G.L # {}) <=> (G.R # {})
    /\ \A o \in Options(G) : is_dicotic(o)

\* ------------------------------------------------------------------------
\* Stops (tools.left_stop, tools.right_stop) and the predicates built on
\* them.  A stop is the pair (game, adornment); max() and min() of no stop at
\* all raise ValueError, which is the stop with s = "ValueError".  A call
\* yields the set of the stops it can return: max() and min() keep the first
\* of several stops with equal keys, in the iteration order of a set.
\* ------------------------------------------------------------------------
Stop(G, s) == [g |-> G, s |-> s]

StopRaised == Stop(zero, "ValueError")

\* stop_order(a) < stop_order(b): the tuples (g, s == '-') compared
StopOrderLess(a, b) ==
    IF Eq(a.g, b.g) THEN a.s # "-" /\ b.s = "-" ELSE Lt(a.g, b.g)

RECURSIVE left_stop(_)
RECURSIVE right_stop(_)
left_stop(G) ==
    IF is_number(G) THEN {Stop(G, "+")}
    ELSE LET stops == UNION {right_stop(G_L) : G_L \in G.L}
         IN  IF stops = {} \/ StopRaised \in stops THEN {StopRaised}
             ELSE {ls \in stops : \A other \in stops : ~StopOrderLess(ls, other)}

right_stop(G) ==
    IF is_number(G) THEN {Stop(G, "-")}
    ELSE LET stops == UNION {left_stop(G_R) : G_R \in G.R}
         IN  IF stops = {} \/ StopRaised \in stops THEN {StopRaised}
             ELSE {rs \in stops : \A other \in stops : ~StopOrderLess(other, rs)}

\* what a predicate does: it returns a boolean, or it raises
Answer(b) == [value |-> b, raises |-> "none"]

Raises(exception) == [value |-> FALSE, raises |-> exception]

\* Game.is_numberish
is_numberish(G) ==
    {IF StopRaised \in {ls, rs} THEN Raises("ValueError") ELSE Answer(Eq(ls.g, rs.g))
       : ls \in left_stop(G), rs \in right_stop(G)}

\* Game.is_infinitesimal
is_infinitesimal(G) ==
    {IF StopRaised \in {ls, rs} THEN Raises("ValueError")
     ELSE Answer((Eq(ls.g, rs.g) /\ Eq(rs.g, zero)) /\ ~Eq(G, zero))
       : ls \in left_stop(G), rs \in right_stop(G)}

\* the answers of the properties of Game on the option sets G
GameProperties(G) ==
    [is_number |-> is_number(G), is_impartial |-> is_impartial(G),
     is_dicotic |-> is_dicotic(G), is_switch |-> is_switch(G),
     is_numberish |-> is_numberish(G), is_infinitesimal |-> is_infinitesimal(G),
     birthday |-> birthday(G)]

\* the answers of the properties of an object X: Nimber, Surreal and Switch
\* override them with constants or a test of n; Surreal and Switch leave
\* birthday to Game
Properties(X) ==
    IF X.t = "Nimber"
    THEN [is_number |-> X.n[1] = 0, is_impartial |-> TRUE, is_dicotic |-> TRUE,
          is_switch |-> FALSE, is_numberish |-> {Answer(TRUE)},
          is_infinitesimal |-> {Answer(X.n[1] # 0)}, birthday |-> X.n[1]]
    ELSE IF X.t = "Surreal"
    THEN [is_number |-> TRUE, is_impartial |-> X.n[1] = 0, is_dicotic |-> X.n[1] = 0,
          is_switch |-> FALSE, is_numberish |-> {Answer(TRUE)},
          is_infinitesimal |-> {Answer(FALSE)}, birthday |-> birthday(X.G)]
    ELSE IF X.t = "Switch"
    THEN [is_number |-> FALSE, is_impartial |-> FALSE, is_dicotic |-> FALSE,
          is_switch |-> TRUE, is_numberish |-> {Answer(FALSE)},
          is_infinitesimal |-> {Answer(FALSE)}, birthday |-> birthday(X.G)]
    ELSE GameProperties(X.G)

\* ------------------------------------------------------------------------
\* Surreal.from_value and the closed forms of Surreal (games/surreal.py).  A
\* value handed to from_value is an exact Fraction num/den in lowest terms,
\* or a float: the float nearest to num/den, which is num/den itself when
\* den is a power of two.
\* ------------------------------------------------------------------------
RECURSIVE GCD(_, _)
GCD(a, b) == IF b = 0 THEN a ELSE GCD(b, a % b)

Abs(i) == IF i < 0 THEN -i ELSE i

\* fractions.Fraction(numerator, denominator) for any denominator but 0
Rational(numerator, denominator) ==
    LET c == GCD(Abs(numerator), Abs(denominator))
        sign == IF denominator < 0 THEN -1 ELSE 1
    IN  <<sign * (numerator \div c), sign * (denominator \div c)>>

ExactValue(v) == [num |-> v[1], den |-> v[2], float |-> FALSE]

\* value - 1 / value.denominator and value + 1 / value.denominator for a
\* non-integer value: 1 / value.denominator is a float, so the result is the
\* float of (num - 1)/den or (num + 1)/den; the sum of two floats is taken as
\* the float nearest to the exact sum
FloatValue(numerator, denominator) ==
    LET r == Rational(numerator, denominator)
    IN  [num |-> r[1], den |-> r[2], float |-> TRUE]

\* Fraction(value): the value itself, or the ratio of the float
FractionOfValue(value) ==
    IF value.float THEN <<value.num, FloatDenominator(<<value.num, value.den>>)>>
    ELSE <<value.num, value.den>>

\* cls(left=left, right=right) in from_value, on options already built
SurrealOnOptions(left, right) ==
    CHOOSE S \in Surreal(MkGame({o.G : o \in left}, {o.G : o \in right})) : TRUE

\* Surreal.from_value(value): the object returned or the exception, and the
\* number of calls of from_value made, this one included
RECURSIVE from_value(_)
from_value(value) ==
    LET v == FractionOfValue(value)
        minus == IF v[2] = 1 THEN ExactValue(<<v[1] - 1, 1>>) ELSE FloatValue(v[1] - 1, v[2])
        plus == IF v[2] = 1 THEN ExactValue(<<v[1] + 1, 1>>) ELSE FloatValue(v[1] + 1, v[2])
    IN  IF v[2] > MaxDenominator THEN [obj |-> Raise("ValueError"), calls |-> 1]
        ELSE IF v[2] = 1 /\ v[1] = 0
        THEN [obj |-> SurrealOnOptions({}, {}), calls |-> 1]
        ELSE IF v[2] = 1 /\ v[1] > 0
        THEN LET l == from_value(minus)
             IN  [obj |-> IF l.obj.t # "Surreal" THEN l.obj ELSE SurrealOnOptions({l.obj}, {}),
                  calls |-> 1 + l.calls]
        ELSE IF v[2] = 1
        THEN LET r == from_value(plus)
             IN  [obj |-> IF r.obj.t # "Surreal" THEN r.obj ELSE SurrealOnOptions({}, {r.obj}),
                  calls |-> 1 + r.calls]
        ELSE LET l == from_value(minus)
             IN  IF l.obj.t # "Surreal" THEN [obj |-> l.obj, calls |-> 1 + l.calls]
                 ELSE LET r == from_value(plus)
                      IN  [obj |-> IF r.obj.t # "Surreal" THEN r.obj
                                   ELSE SurrealOnOptions({l.obj}, {r.obj}),
                           calls |-> 1 + l.calls + r.calls]

\* G._n / H.n for two Fractions: the quotient, or <<>> when H.n is 0
FractionDiv(a, b) == IF b[1] = 0 THEN <<>> ELSE Rational(a[1] * b[2], a[2] * b[1])

\* The body of Surreal.__truediv__(X, Y) for a Surreal X: from_value of the
\* quotient of the two values when Y is a Surreal; otherwise
\* Game.__truediv__, that is G * H._inverse(), and Game._inverse raises
SurrealDiv(X, Y) ==
    IF Y.t # "Surreal" THEN [obj |-> Raise("NotImplementedError"), calls |-> 0]
    ELSE IF FractionDiv(X.n, Y.n) = <<>>
    THEN [obj |-> Raise("ZeroDivisionError"), calls |-> 0]
    ELSE from_value(ExactValue(FractionDiv(X.n, Y.n)))

\* The body of Surreal.__add__ and Surreal.__mul__ for two Surreals
SurrealAdd(X, Y) == from_value(ExactValue(FractionAdd(X.n, Y.n))).obj

SurrealMul(X, Y) == from_value(ExactValue(FractionMul(X.n, Y.n))).obj

\* Game.__mul__
RECURSIVE Mul(_, _)
MulDropsRightA(G, H) ==
    MkGame({Sub(Add(Mul(G_L, H), Mul(G, H_L)), Mul(G_L, H_L)) : G_L \in G.L, H_L \in H.L}
             \cup {Sub(Add(Mul(G_R, H), Mul(G, H_R)), Mul(G_R, H_R)) : G_R \in G.R, H_R \in H.R},
           {Sub(Add(Mul(G_R, H), Mul(G, H_L)), Mul(G_R, H_L)) : G_R \in G.R, H_L \in H.L})

Mul(G, H) ==
    LET left_a == {Sub(Add(Mul(G_L, H), Mul(G, H_L)), Mul(G_L, H_L)) : G_L \in G.L, H_L \in H.L}
        left_b == {Sub(Add(Mul(G_R, H), Mul(G, H_R)), Mul(G_R, H_R)) : G_R \in G.R, H_R \in H.R}
        right_a == {Sub(Add(Mul(G_L, H), Mul(G, H_R)), Mul(G_L, H_R)) : G_L \in G.L, H_R \in H.R}
        right_b == {Sub(Add(Mul(G_R, H), Mul(G, H_L)), Mul(G_R, H_L)) : G_R \in G.R, H_L \in H.L}
    IN  MkGame(left_a \cup left_b, right_a \cup right_b)

\* Python's m ^ n for two non-negative integers
RECURSIVE Xor(_, _)
Xor(m, n) ==
    IF m = 0 /\ n = 0 THEN 0
    ELSE ((m + n) % 2) + 2 * Xor(m \div 2, n \div 2)

\* utils.mex: the first i of count() that is not in s
mex(s) == CHOOSE i \in 0..Cardinality(s) : i \notin s /\ \A j \in 0..(i - 1) : j \in s

\* nimber._mul
RECURSIVE _mul(_, _)
_mul(n1, n2) ==
    mex({Xor(Xor(_mul(a, n2), _mul(n1, b)), _mul(a, b)) :
            a \in 0..(n1 - 1), b \in 0..(n2 - 1)})

\* The body of Nimber.__add__(X, Y): the closed form for two Nimbers,
\* Game.__add__ on Game(X), Game(Y) otherwise
NimberAdd(X, Y) ==
    IF Y.t = "Nimber" THEN NimberObj(Xor(X.n[1], Y.n[1]))
    ELSE Obj(Add(X.G, Y.G), "Game", <<>>)

\* The body of Nimber.__mul__(X, Y)
NimberMul(X, Y) ==
    IF Y.t = "Nimber" THEN NimberObj(_mul(X.n[1], Y.n[1]))
    ELSE Obj(Mul(X.G, Y.G), "Game", <<>>)

\* The key of a call f(X, Y) in an lru_cache: the two arguments are found
\* by hash and ==, and two objects on the same option sets have the same
\* hash and are ==, whatever their types
CacheKey(f, G, H) == <<f, Hash(G), Hash(H)>>

\* The calls of Nimber.__add__ made while Game.__add__(G, H) runs on two
\* trees whose options are Nimbers (a Nimber, or the copy Game(N) of one,
\* which holds the same option objects): G_L + H and H_L + G in the two
\* branches of a number, each with a Nimber on the left and the Game copy of
\* the number on the right; H + G_L and G + H_L of the last branch have a
\* Game on the left and go to Game.__add__.  Each call is stored under its
\* key with the Game that Game.__add__ returns.
RECURSIVE AddCalls(_, _)
AddCalls(G, H) ==
    IF ~is_number(G) /\ is_number(H)
    THEN {<<G_L, H>> : G_L \in Options(G)} \cup UNION {AddCalls(G_L, H) : G_L \in Options(G)}
    ELSE IF is_number(G) /\ ~is_number(H)
    THEN {<<H_L, G>> : H_L \in Options(H)} \cup UNION {AddCalls(H_L, G) : H_L \in Options(H)}
    ELSE UNION {AddCalls(H, G_L) : G_L \in Options(G)}
            \cup UNION {AddCalls(G, H_L) : H_L \in Options(H)}

AddEntries(G, H) ==
    [key \in {CacheKey("Nimber.__add__", c[1], c[2]) : c \in AddCalls(G, H)} |->
        LET c == CHOOSE c \in AddCalls(G, H) : CacheKey("Nimber.__add__", c[1], c[2]) = key
        IN  Obj(Add(c[1], c[2]), "Game", <<>>)]

\* The calls of Nimber.__mul__ made while Game.__mul__(G, H) runs on two
\* such trees.  Each term is G_x * H + G * H_y - G_x * H_y, evaluated from
\* the left: G_x * H is Nimber.__mul__ with a Game on the right, G * H_y is
\* Game.__mul__, and G_x * H_y is Nimber.__mul__ on two Nimbers, which by
\* then is in the cache as a Game when G * H_y has made the same call with
\* the Game copy of H_y (it does when H_y has options).
RECURSIVE MulCalls(_, _)
MulCalls(G, H) ==
    UNION { {<<G_x, H>>, <<G_x, H_y>>} \cup MulCalls(G_x, H) \cup MulCalls(G, H_y)
            : G_x \in Options(G), H_y \in Options(H) }

MulEntries(G, H) ==
    [key \in {CacheKey("Nimber.__mul__", c[1], c[2]) : c \in MulCalls(G, H)} |->
        LET c == CHOOSE c \in MulCalls(G, H) : CacheKey("Nimber.__mul__", c[1], c[2]) = key
        IN  IF Options(c[2]) = {} THEN NimberObj(0)
            ELSE Obj(Mul(c[1], c[2]), "Game", <<>>)]

\* the objects that can be built on the option sets of G
Objects(G) ==
    {Obj(G, "Game", <<>>)}
        \cup {S \in Surreal(G) \cup Switch(G) : S.t \in {"Surreal", "Switch"}}

\* ------------------------------------------------------------------------
\* The rewriting passes of canonical_form.py.  A Python set is iterated in an
\* order the program does not control, so each pass yields the set of results
\* over all iteration orders.
\* ------------------------------------------------------------------------
RECURSIVE RemoveLeft(_, _)
RemoveLeft(todo, left) ==
    IF todo = {} THEN {left}
    ELSE UNION { RemoveLeft(todo \ {g},
                            IF \E G_L \in left : Lt(g, G_L) THEN left \ {g} ELSE left)
                 : g \in todo }

RECURSIVE RemoveRight(_, _)
RemoveRight(todo, right) ==
    IF todo = {} THEN {right}
    ELSE UNION { RemoveRight(todo \ {g},
                             IF \E G_R \in right : Gt(g, G_R) THEN right \ {g} ELSE right)
                 : g \in todo }

remove_dominated(G) ==
    { MkGame(left, right) : left \in RemoveLeft(G.L, G.L), right \in RemoveRight(G.R, G.R) }

\* the right options of G_L through which G_L is reversible
ReversingLeft(G, G_L) == {G_LR \in G_L.R : Le(G_LR, G)}

ReversingRightAny(G, G_R) == G_R.L

\* the left options of G_R through which G_R is reversible
ReversingRight(G, G_R) == {G_RL \in G_R.L : Ge(G_RL, G)}

NewLeftSets(G) ==
    LET rev == {G_L \in G.L : ReversingLeft(G, G_L) # {}}
        first == {f \in [rev -> UNION {G_L.R : G_L \in rev}] :
                     \A G_L \in rev : f[G_L] \in ReversingLeft(G, G_L)}
    IN  { (G.L \ rev) \cup UNION {f[G_L].L : G_L \in rev} : f \in first }

NewRightSets(G) ==
    LET rev == {G_R \in G.R : ReversingRight(G, G_R) # {}}
        first == {f \in [rev -> UNION {G_R.L : G_R \in rev}] :
                     \A G_R \in rev : f[G_R] \in ReversingRight(G, G_R)}
    IN  { (G.R \ rev) \cup UNION {f[G_R].R : G_R \in rev} : f \in first }

replace_reversible(G) ==
    UNION { { MkGame(new_left_set, new_right_set) :
                new_right_set \in NewRightSets(MkGame(new_left_set, G.R)) }
            : new_left_set \in NewLeftSets(G) }

\* the test of the while loop of canonical
LoopTestIgnoresOld(cG, old) == cG.L # {} \/ cG.R # {}

LoopTest(cG, old) == cG.L # old.L \/ cG.R # old.R


\* canonical(G) evaluated with no cache anywhere: the results over all
\* iteration orders
RECURSIVE Loop(_, _)
Loop(cG, old) ==
    IF LoopTest(cG, old)
    THEN UNION { Loop(new, cG) :
                   new \in UNION {replace_reversible(x) : x \in remove_dominated(cG)} }
    ELSE {cG}

RECURSIVE canonical(_)
canonical(G) ==
    LET opts == Options(G)
        pick == {f \in [opts -> UNION {canonical(o) : o \in opts}] :
                    \A o \in opts : f[o] \in canonical(o)}
    IN  UNION { Loop(MkGame({f[o] : o \in G.L}, {f[o] : o \in G.R}), zero) : f \in pick }

\* ------------------------------------------------------------------------
\* State
\* ------------------------------------------------------------------------
VARIABLES
    stack,      \* active calls, innermost last
    result,     \* the lru_cache of canonical: G -> K
    rdCache,    \* the lru_cache of remove_dominated: entries [h, key]
    rrCache,    \* the lru_cache of replace_reversible: entries [h, key]
    specific,   \* the lru_cache of make_specific: G -> the object built
    calls,      \* top-level calls made so far
    ret,        \* what the last top-level call returned, or the exception
    heap,       \* the option sets each Game object has now: id -> [L, R]
    g, h, k,    \* operands of the algebra
    op, out,    \* the last operator applied to them and what it returned
    opCache,    \* the lru_caches of Nimber.__add__ and Nimber.__mul__
    recursionlimit,  \* sys.getrecursionlimit()
    old_limits  \* old_limit of each active recursion_limit block, innermost last

vars == <<stack, result, rdCache, rrCache, specific, calls, ret, heap, g, h, k, op, out,
          opCache, recursionlimit, old_limits>>

sysVars == <<recursionlimit, old_limits>>

canonVars == <<stack, result, rdCache, rrCache, specific, calls, ret, heap>>

algVars == <<g, h, k, op, out, opCache, sysVars>>

\* Games handed to canonical_form by a caller
SampleGames ==
    { zero,
      star,
      MkGame({zero, one}, {}),
      MkGame({MkGame({one}, {one}), one}, {}),
      MkGame({}, {one}),
      MkGame({one}, {minus_one}),
      MkGame({one}, {MkGame({zero}, {minus_one})}),
      MkGame({zero}, {star}) }

Top == stack[Len(stack)]

Cached(G) == G \in DOMAIN result

\* The Game objects: the one a caller made with the option sets G and passes as
\* an argument (or has as an option of an argument), and the one copy(G) makes
\* in canonical(G).
Argument(G) == <<"argument", G>>

alias(G) == Argument(G)

copy(G) == <<"copy", G>>

\* the frame of a call that has just been entered; cG = copy(G)
Frame(fn, G, specify) ==
    [fn |-> fn, G |-> G, specify |-> specify, obj |-> copy(G), cG |-> G, old |-> zero,
     pc |-> IF fn = "canonical" THEN "options" ELSE fn]

\* the heap once canonical(G) has made its copy of the argument
Copied(G) == (copy(G) :> G) @@ heap @@ (Argument(G) :> G)

\* cG._left = ... / cG._right = ...: the object cG names gets new option sets
Assigned(new) == [heap EXCEPT ![Top.obj] = new]

Running(fn, pc) == stack # <<>> /\ Top.fn = fn /\ Top.pc = pc

Pop == SubSeq(stack, 1, Len(stack) - 1)

\* The current option sets of the object a cache entry holds as its key.  A key
\* is the cG of a call of canonical: the running one, or one that has returned.
KeyState(key) ==
    IF stack # <<>> /\ Top.fn = "canonical" /\ Top.G = key
    THEN Top.cG
    ELSE result[key]

\* A dict lookup in an lru_cache: an entry stored under the same hash whose key
\* is the same object, or compares equal (Game.__eq__) to the argument.
LookupHit(cache, key, cG) ==
    \E e \in cache :
        /\ e.h = Hash(cG)
        /\ \/ e.key = key
           \/ Eq(KeyState(e.key), cG)

Store(cache, key, cG) == cache \cup {[h |-> Hash(cG), key |-> key]}

Init ==
    /\ stack = <<>>
    /\ result = <<>>
    /\ rdCache = {}
    /\ rrCache = {}
    /\ specific = <<>>
    /\ calls = 0
    /\ ret = Obj(zero, "Game", <<>>)
    /\ heap = <<>>
    /\ g = zero /\ h = zero /\ k = zero
    /\ op = "none"
    /\ out = zero
    /\ opCache = <<>>
    /\ recursionlimit = DefaultLimit
    /\ old_limits = <<>>

\* ------------------------------------------------------------------------
\* canonical_form(G, specify)
\* ------------------------------------------------------------------------
\* a caller passes a Game of its own or the option sets of a result it was given
Callable == SampleGames \cup {result[x] : x \in DOMAIN result}

\* canonical_form(G, specify) is called.  A repeated call finds in the caches of
\* canonical and make_specific the objects its own lru_cache holds.
Call(G, specify) ==
    /\ stack = <<>>
    /\ calls < MaxCalls
    /\ calls' = calls + 1
    /\ stack' = <<Frame("canonical_form", G, specify)>>
    /\ UNCHANGED <<result, rdCache, rrCache, specific, ret, heap, algVars>>

\* cG = canonical(G), or canonical(G_L) for an option: the call has to compute
CanonicalCall ==
    /\ \/ /\ Running("canonical_form", "canonical_form")
          /\ ~Cached(Top.G)
          /\ stack' = Append(stack, Frame("canonical", Top.G, FALSE))
          /\ heap' = Copied(Top.G)
       \/ /\ Running("canonical", "options")
          /\ LET missL == {o \in Top.G.L : ~Cached(o)}
                 missR == {o \in Top.G.R : ~Cached(o)}
             IN  \E o \in (IF missL # {} THEN missL ELSE missR) :
                     /\ stack' = Append(stack, Frame("canonical", o, FALSE))
                     /\ heap' = Copied(o)
    /\ UNCHANGED <<result, rdCache, rrCache, specific, calls, ret, algVars>>

\* cG = canonical(G) is there: on to make_specific(cG) if specify else cG
CanonicalDone ==
    /\ Running("canonical_form", "canonical_form")
    /\ Cached(Top.G)
    /\ stack' = [stack EXCEPT ![Len(stack)] =
                   [@ EXCEPT !.pc = "return", !.cG = result[Top.G]]]
    /\ UNCHANGED <<result, rdCache, rrCache, specific, calls, ret, heap, algVars>>

\* cG._left, cG._right = the canonical options; old_left, old_right = set(), set()
OptionsDone ==
    /\ Running("canonical", "options")
    /\ \A o \in Options(Top.G) : Cached(o)
    /\ stack' = [stack EXCEPT ![Len(stack)] =
                   [@ EXCEPT !.pc = "while",
                             !.cG = MkGame({result[o] : o \in Top.G.L},
                                           {result[o] : o \in Top.G.R}),
                             !.old = zero]]
    /\ heap' = Assigned(MkGame({result[o] : o \in Top.G.L}, {result[o] : o \in Top.G.R}))
    /\ UNCHANGED <<result, rdCache, rrCache, specific, calls, ret, algVars>>

\* while cG.left != old_left or cG.right != old_right: old_left, old_right = ...
LoopEnter ==
    /\ Running("canonical", "while")
    /\ LoopTest(Top.cG, Top.old)
    /\ stack' = [stack EXCEPT ![Len(stack)] =
                   [@ EXCEPT !.pc = "remove_dominated", !.old = Top.cG]]
    /\ UNCHANGED <<result, rdCache, rrCache, specific, calls, ret, heap, algVars>>

\* the loop ends: return cG
Return ==
    /\ Running("canonical", "while")
    /\ ~LoopTest(Top.cG, Top.old)
    /\ result' = result @@ (Top.G :> Top.cG)
    /\ stack' = Pop
    /\ UNCHANGED <<rdCache, rrCache, specific, calls, ret, heap, algVars>>

\* remove_dominated(cG): answered from its lru_cache
RemoveDominatedCached ==
    /\ Running("canonical", "remove_dominated")
    /\ LookupHit(rdCache, Top.G, Top.cG)
    /\ stack' = [stack EXCEPT ![Len(stack)].pc = "replace_reversible"]
    /\ UNCHANGED <<result, rdCache, rrCache, specific, calls, ret, heap, algVars>>

\* remove_dominated(cG) runs, and is stored under the hash cG had when called
RemoveDominated ==
    /\ Running("canonical", "remove_dominated")
    /\ ~LookupHit(rdCache, Top.G, Top.cG)
    /\ \E new \in remove_dominated(Top.cG) :
           /\ stack' = [stack EXCEPT ![Len(stack)] =
                          [@ EXCEPT !.pc = "replace_reversible", !.cG = new]]
           /\ heap' = Assigned(new)
    /\ rdCache' = Store(rdCache, Top.G, Top.cG)
    /\ UNCHANGED <<result, rrCache, specific, calls, ret, algVars>>

\* replace_reversible(cG): answered from its lru_cache
ReplaceReversibleCached ==
    /\ Running("canonical", "replace_reversible")
    /\ LookupHit(rrCache, Top.G, Top.cG)
    /\ stack' = [stack EXCEPT ![Len(stack)].pc = "while"]
    /\ UNCHANGED <<result, rdCache, rrCache, specific, calls, ret, heap, algVars>>

\* replace_reversible(cG) runs, and is stored under the hash cG had when called
ReplaceReversible ==
    /\ Running("canonical", "replace_reversible")
    /\ ~LookupHit(rrCache, Top.G, Top.cG)
    /\ \E new \in replace_reversible(Top.cG) :
           /\ stack' = [stack EXCEPT ![Len(stack)] =
                          [@ EXCEPT !.pc = "while", !.cG = new]]
           /\ heap' = Assigned(new)
    /\ rrCache' = Store(rrCache, Top.G, Top.cG)
    /\ UNCHANGED <<result, rdCache, specific, calls, ret, algVars>>

\* return make_specific(cG) if specify else cG
ReturnSpecific ==
    /\ Running("canonical_form", "return")
    /\ \/ ~Top.specify /\ ret' = Obj(Top.cG, "Game", <<>>)
       \/ Top.specify /\ Top.cG \in DOMAIN specific /\ ret' = specific[Top.cG]
    /\ stack' = Pop
    /\ UNCHANGED <<result, rdCache, rrCache, specific, calls, heap, algVars>>

\* make_specific(cG), or make_specific(G_L) for an option of a Game that is
\* neither a number, nor impartial, nor a switch: the call has to compute
MakeSpecificCall ==
    /\ \/ /\ Running("canonical_form", "return")
          /\ Top.specify
          /\ Top.cG \notin DOMAIN specific
          /\ stack' = Append(stack, Frame("make_specific", Top.cG, TRUE))
       \/ /\ Running("make_specific", "make_specific")
          /\ ~is_number(Top.G) /\ ~is_impartial(Top.G) /\ ~is_switch(Top.G)
          /\ LET missL == {o \in Top.G.L : o \notin DOMAIN specific}
                 missR == {o \in Top.G.R : o \notin DOMAIN specific}
             IN  \E o \in (IF missL # {} THEN missL ELSE missR) :
                     stack' = Append(stack, Frame("make_specific", o, TRUE))
    /\ UNCHANGED <<result, rdCache, rrCache, specific, calls, ret, heap, algVars>>

\* make_specific(G), its options specialised: the object a constructor builds,
\* or the exception it raises.  Nimber.__init__(G, n) takes no left and right,
\* so Nimber(left=G.left, right=G.right) is a TypeError.
make_specific(G) ==
    IF is_number(G) THEN Surreal(G)
    ELSE IF is_impartial(G) THEN {Raise("TypeError")}
    ELSE IF is_switch(G) THEN Switch(G)
    ELSE {Obj(G, "Game", <<>>)}

Returns(S) == S.t \in {"Game", "Surreal", "Switch"}

\* the type of the options of the object a constructor builds: Surreal and
\* Switch make Surreals of them, Game(left=left, right=right) makes Game(_) of
\* each, a plain Game with the option sets of _
OptionType(S) == IF S.t = "Game" THEN "Game" ELSE "Surreal"

OptionsSpecific(G) ==
    is_number(G) \/ is_impartial(G) \/ is_switch(G)
       \/ \A o \in Options(G) : o \in DOMAIN specific

\* make_specific(G) returns the object built, which its lru_cache keeps
MakeSpecific ==
    /\ Running("make_specific", "make_specific")
    /\ OptionsSpecific(Top.G)
    /\ \E S \in make_specific(Top.G) :
          /\ Returns(S)
          /\ specific' = specific @@ (Top.G :> S)
    /\ stack' = Pop
    /\ UNCHANGED <<result, rdCache, rrCache, calls, ret, heap, algVars>>

\* make_specific(G) raises: the exception leaves every active call
MakeSpecificRaises ==
    /\ Running("make_specific", "make_specific")
    /\ OptionsSpecific(Top.G)
    /\ \E S \in make_specific(Top.G) :
          /\ ~Returns(S)
          /\ ret' = S
    /\ stack' = <<>>
    /\ UNCHANGED <<result, rdCache, rrCache, specific, calls, heap, algVars>>

\* Game(H) for the object H the last call returned: G._left = copy(H._left),
\* G._right = copy(H._right)
GameCopy ==
    /\ stack = <<>>
    /\ calls > 0
    /\ Returns(ret)
    /\ <<"Game", ret.G>> \notin DOMAIN heap
    /\ heap' = (<<"Game", ret.G>> :> ret.G) @@ heap
    /\ UNCHANGED <<stack, result, rdCache, rrCache, specific, calls, ret, algVars>>

Step ==
    \/ CanonicalCall
    \/ CanonicalDone
    \/ OptionsDone
    \/ LoopEnter
    \/ Return
    \/ RemoveDominatedCached
    \/ RemoveDominated
    \/ ReplaceReversibleCached
    \/ ReplaceReversible
    \/ ReturnSpecific
    \/ MakeSpecificCall
    \/ MakeSpecific
    \/ MakeSpecificRaises

Next ==
    \/ \E G \in Callable : \E specify \in BOOLEAN : Call(G, specify)
    \/ GameCopy
    \/ Step

Spec == Init /\ [][Next]_vars

\* a call, once made, runs to its end
FairSpec == Spec /\ WF_vars(Step)

\* ------------------------------------------------------------------------
\* The operators, applied to operands drawn from the bounded sets
\* ------------------------------------------------------------------------
OperandsG == GamesOfSize(MaxSize)

OperandsH == GamesOfSize(MaxSize - 1)

OperandsK == GamesOfSize(MaxSize - 2)

\* G >= H, G <= H, G > H, G < H, G == H, G | H and the reflected H | G
Compare(G, H) ==
    /\ op = "none"
    /\ op' = "compare"
    /\ g' = G /\ h' = H /\ k' = zero
    /\ out' = [ge |-> Ge(G, H), le |-> Le(G, H), gt |-> Gt(G, H), lt |-> Lt(G, H),
               eq |-> Eq(G, H), fuzzy |-> Fuzzy(G, H), ror |-> Fuzzy(H, G)]
    /\ UNCHANGED <<canonVars, opCache, sysVars>>

\* -G and -(-G)
Negate(G) ==
    /\ op = "none"
    /\ op' = "negate"
    /\ g' = G /\ h' = zero /\ k' = zero
    /\ out' = [neg |-> Neg(G), negneg |-> Neg(Neg(G))]
    /\ UNCHANGED <<canonVars, opCache, sysVars>>

\* -N for the Nimber N = Nimber(n)
NegateNimber(n) ==
    /\ op = "none"
    /\ op' = "negate_nimber"
    /\ g' = Nimber(n) /\ h' = zero /\ k' = zero
    /\ out' = [neg |-> NimberNeg(Nimber(n))]
    /\ UNCHANGED <<canonVars, opCache, sysVars>>

\* G + H and H + G
Plus(G, H) ==
    /\ op = "none"
    /\ op' = "plus"
    /\ g' = G /\ h' = H /\ k' = zero
    /\ out' = [sum |-> Add(G, H), commuted |-> Add(H, G), reflected |-> RAdd(H, G)]
    /\ UNCHANGED <<canonVars, opCache, sysVars>>

\* (G + H) + K and G + (H + K)
PlusAssoc(G, H, K) ==
    /\ op = "none"
    /\ op' = "plus_assoc"
    /\ g' = G /\ h' = H /\ k' = K
    /\ out' = [left |-> Add(Add(G, H), K), right |-> Add(G, Add(H, K))]
    /\ UNCHANGED <<canonVars, opCache, sysVars>>

\* G - H, G - G, G + 0 and G + (-G)
Minus(G, H) ==
    /\ op = "none"
    /\ op' = "minus"
    /\ g' = G /\ h' = H /\ k' = zero
    /\ out' = [sub |-> Sub(G, H), subself |-> Sub(G, G),
               addzero |-> Add(G, zero), addneg |-> Add(G, Neg(G))]
    /\ UNCHANGED <<canonVars, opCache, sysVars>>

\* G >= H, G == H, G | H next to the same comparisons of G - H with 0, and
\* G + K == H + K
Difference(G, H, K) ==
    /\ op = "none"
    /\ op' = "difference"
    /\ g' = G /\ h' = H /\ k' = K
    /\ out' = [ge |-> Ge(G, H), eq |-> Eq(G, H), fuzzy |-> Fuzzy(G, H),
               diff |-> Sub(G, H),
               diff_ge |-> Ge(Sub(G, H), zero), diff_eq |-> Eq(Sub(G, H), zero),
               diff_fuzzy |-> Fuzzy(Sub(G, H), zero),
               sums_eq |-> Eq(Add(G, K), Add(H, K))]
    /\ UNCHANGED <<canonVars, opCache, sysVars>>

\* left_stop(G), right_stop(G), G.is_numberish and G.is_infinitesimal
Stops(G) ==
    /\ op = "none"
    /\ op' = "stops"
    /\ g' = G /\ h' = zero /\ k' = zero
    /\ out' = [left_stop |-> left_stop(G), right_stop |-> right_stop(G),
               is_numberish |-> is_numberish(G),
               is_infinitesimal |-> is_infinitesimal(G)]
    /\ UNCHANGED <<canonVars, opCache, sysVars>>

AlgNext ==
    \/ \E G \in OperandsG : Stops(G)
    \/ \E G \in OperandsG : \E H \in OperandsH : Compare(G, H)
    \/ \E G \in OperandsG : Negate(G)
    \/ \E n \in 0..MaxNimber : NegateNimber(n)
    \/ \E G \in OperandsG : \E H \in OperandsH : Plus(G, H)
    \/ \E G \in OperandsH : \E H \in OperandsH : \E K \in OperandsK : PlusAssoc(G, H, K)
    \/ \E G \in OperandsG : \E H \in OperandsH : Minus(G, H)

AlgSpec == Init /\ [][AlgNext]_vars

\* G >= H, H >= K and G >= K, with == and < between the same operands
Order(G, H, K) ==
    /\ op = "none"
    /\ op' = "order"
    /\ g' = G /\ h' = H /\ k' = K
    /\ out' = [ge |-> [x \in {<<G, H>>, <<H, K>>, <<G, K>>, <<H, G>>, <<G, G>>} |-> Ge(x[1], x[2])],
               eq |-> [x \in {<<G, H>>, <<H, K>>, <<G, K>>, <<H, G>>, <<G, G>>} |-> Eq(x[1], x[2])],
               lt |-> [x \in {<<G, H>>, <<H, K>>, <<G, K>>, <<H, G>>, <<G, G>>} |-> Lt(x[1], x[2])]]
    /\ UNCHANGED <<canonVars, opCache, sysVars>>

OrderNext ==
    \E G \in OperandsG : \E H \in OperandsH : \E K \in OperandsK : Order(G, H, K)

OrderSpec == Init /\ [][OrderNext]_vars

DifferenceNext ==
    \E G \in OperandsG : \E H \in OperandsH : \E K \in OperandsK : Difference(G, H, K)

DifferenceSpec == Init /\ [][DifferenceNext]_vars

\* ------------------------------------------------------------------------
\* The subtypes and the numeric constructors, applied to bounded operands
\* ------------------------------------------------------------------------
TypedOperands ==
    UNION {Objects(G) : G \in OperandsG \cup {MkGame({minus_one, one}, {})}}
        \cup {NimberObj(n) : n \in 0..MaxNimber}
        \cup {FlatNimberObj(n) : n \in 0..MaxNimber}

\* two objects of one package: the flat module ludology.nimber builds on the
\* Game of ludology.game, games/nimber.py on the Game of games/game.py
SamePackage(X, Y) ==
    (X.t = "nimber.Nimber" => Y.t \in {"nimber.Nimber", "Game"})
        /\ (Y.t = "nimber.Nimber" => X.t \in {"nimber.Nimber", "Game"})

\* hash(X), hash(Y), X == Y, X >= Y and Y >= X
HashAndCompare(X, Y) ==
    /\ op = "none"
    /\ op' = "hash"
    /\ g' = X.G /\ h' = Y.G /\ k' = zero
    /\ out' = [tx |-> X.t, ty |-> Y.t, hx |-> ObjHash(X), hy |-> ObjHash(Y),
               eq |-> TypedEq(X, Y), ge |-> ObjGe(X, Y), le |-> ObjGe(Y, X),
               nx |-> X.n, ny |-> Y.n]
    /\ UNCHANGED <<canonVars, opCache, sysVars>>

\* the numbers handed to the constructors
NumberValues == {Fraction(numerator, 2^e) : numerator \in (-MaxNum)..MaxNum, e \in 0..MaxExp}

\* Game(a) * Game(b) and Game(a * b)
Multiply(a, b) ==
    /\ op = "none"
    /\ op' = "multiply"
    /\ g' = Game(a).G /\ h' = Game(b).G /\ k' = zero
    /\ out' = [a |-> a, b |-> b, prod |-> Mul(Game(a).G, Game(b).G),
               number |-> Game(FractionMul(a, b))]
    /\ UNCHANGED <<canonVars, opCache, sysVars>>

\* G * H and H * G (Game.__rmul__ returns G * H)
MultiplyGames(G, H) ==
    /\ op = "none"
    /\ op' = "multiply_games"
    /\ g' = G /\ h' = H /\ k' = zero
    /\ out' = [prod |-> Mul(G, H), reflected |-> Mul(G, H)]
    /\ UNCHANGED <<canonVars, opCache, sysVars>>

MulNext ==
    \/ \E a \in NumberValues :
          \E b \in {v \in NumberValues : birthday(Game(a).G) * birthday(Game(v).G) <= MaxDays} :
             Multiply(a, b)
    \/ \E G \in OperandsH :
          \E H \in {K \in OperandsH : birthday(G) * birthday(K) <= MaxDays} :
             MultiplyGames(G, H)

MulSpec == Init /\ [][MulNext]_vars

\* ------------------------------------------------------------------------
\* Sums and products of Nimbers, up to MaxCalls calls in one process
\* ------------------------------------------------------------------------
\* Nimber(n), and the Game(Nimber(n)) a caller can hand over in its place
Nimbers == {NimberObj(n) : n \in 0..MaxNimber}

NimberCopies == {Obj(Nimber(n), "Game", <<>>) : n \in 0..MaxNimber}

\* f(X, Y) under lru_cache: the stored result of an equal key, otherwise the
\* body's result, stored together with what the calls inside the body stored
LruCall(key, computed, inner) ==
    IF key \in DOMAIN opCache
    THEN [res |-> opCache[key], cache |-> opCache]
    ELSE [res |-> computed, cache |-> opCache @@ inner @@ (key :> computed)]

\* X + Y for a Nimber X: Nimber.__add__
NimberPlus(X, Y) ==
    LET key == CacheKey("Nimber.__add__", X.G, Y.G)
        call == LruCall(key, NimberAdd(X, Y),
                       IF Y.t = "Nimber" THEN <<>> ELSE AddEntries(X.G, Y.G))
    IN  /\ calls < MaxCalls
        /\ calls' = calls + 1
        /\ op' = "nimber_add"
        /\ g' = X.G /\ h' = Y.G /\ k' = zero
        /\ out' = [m |-> X.n[1], n |-> Cardinality(Y.G.L), ty |-> Y.t, res |-> call.res,
                   general |-> Add(X.G, Y.G)]
        /\ opCache' = call.cache
        /\ UNCHANGED <<stack, result, rdCache, rrCache, specific, ret, heap, sysVars>>

\* Game(X) + Game(Y): Game.__add__ on the copies of two Nimbers
GamePlus(X, Y) ==
    /\ calls < MaxCalls
    /\ calls' = calls + 1
    /\ op' = "game_add"
    /\ g' = X.G /\ h' = Y.G /\ k' = zero
    /\ out' = [res |-> Obj(Add(X.G, Y.G), "Game", <<>>)]
    /\ opCache' = opCache @@ AddEntries(X.G, Y.G)
    /\ UNCHANGED <<stack, result, rdCache, rrCache, specific, ret, heap, sysVars>>

\* X * Y for a Nimber X: Nimber.__mul__
NimberTimes(X, Y) ==
    LET key == CacheKey("Nimber.__mul__", X.G, Y.G)
        call == LruCall(key, NimberMul(X, Y),
                       IF Y.t = "Nimber" THEN <<>> ELSE MulEntries(X.G, Y.G))
    IN  /\ calls < MaxCalls
        /\ calls' = calls + 1
        /\ op' = "nimber_mul"
        /\ g' = X.G /\ h' = Y.G /\ k' = zero
        /\ out' = [m |-> X.n[1], n |-> Cardinality(Y.G.L), ty |-> Y.t, res |-> call.res,
                   general |-> Mul(X.G, Y.G)]
        /\ opCache' = call.cache
        /\ UNCHANGED <<stack, result, rdCache, rrCache, specific, ret, heap, sysVars>>

\* Game(X) * Game(Y): Game.__mul__ on the copies of two Nimbers
GameTimes(X, Y) ==
    /\ calls < MaxCalls
    /\ calls' = calls + 1
    /\ op' = "game_mul"
    /\ g' = X.G /\ h' = Y.G /\ k' = zero
    /\ out' = [res |-> Obj(Mul(X.G, Y.G), "Game", <<>>)]
    /\ opCache' = opCache @@ MulEntries(X.G, Y.G)
    /\ UNCHANGED <<stack, result, rdCache, rrCache, specific, ret, heap, sysVars>>

NimNext ==
    \/ \E X \in Nimbers : \E Y \in Nimbers \cup NimberCopies : NimberPlus(X, Y)
    \/ \E X \in NimberCopies : \E Y \in NimberCopies : GamePlus(X, Y)
    \/ \E X \in Nimbers : \E Y \in Nimbers \cup NimberCopies : NimberTimes(X, Y)
    \/ \E X \in NimberCopies : \E Y \in NimberCopies : GameTimes(X, Y)

NimSpec == Init /\ [][NimNext]_vars

\* the Surreals divided: from_value of small integers and of 1/2
SurrealValues == {Fraction(numerator, 1) : numerator \in 0..(MaxNum + 1)} \cup {Fraction(1, 2)}

Surreals == {from_value(ExactValue(v)).obj : v \in SurrealValues}

\* Game(S) for a Surreal S: the plain Game on the same option sets
SurrealCopies == {Obj(X.G, "Game", <<>>) : X \in Surreals}

\* the values handed to Surreal.from_value: a float, or an exact Fraction
ValuesHanded ==
    {ExactValue(v) : v \in {<<0, 1>>, <<1, 2>>, <<1, 3>>, <<2, 3>>, <<7, 3>>,
                            <<1, MaxDenominator>>, <<1, 2 * MaxDenominator>>}}
        \cup {FloatValue(v[1], v[2]) : v \in {<<1, 2>>, <<1, 3>>, <<2, 1>>}}

\* Surreal.from_value(value)
FromValue(value) ==
    /\ calls < MaxCalls
    /\ calls' = calls + 1
    /\ op' = "from_value"
    /\ g' = from_value(value).obj.G /\ h' = zero /\ k' = zero
    /\ out' = [value |-> value, res |-> from_value(value).obj,
               calls |-> from_value(value).calls]
    /\ UNCHANGED <<stack, result, rdCache, rrCache, specific, ret, heap, opCache, sysVars>>

\* X / Y for a Surreal X: Surreal.__truediv__ under its lru_cache, whose key
\* is the pair (X, Y) by hash and ==; a call that raises stores nothing
Divide(X, Y) ==
    LET key == CacheKey("Surreal.__truediv__", X.G, Y.G)
        hit == key \in DOMAIN opCache
        body == SurrealDiv(X, Y)
        res == IF hit THEN opCache[key] ELSE body.obj
    IN  /\ calls < MaxCalls
        /\ calls' = calls + 1
        /\ op' = "divide"
        /\ g' = X.G /\ h' = Y.G /\ k' = zero
        /\ out' = [tx |-> X.t, ty |-> Y.t, res |-> res,
                   quotient |-> IF Y.t = "Surreal" THEN FractionDiv(X.n, Y.n) ELSE <<>>,
                   calls |-> IF hit THEN 0 ELSE body.calls]
        /\ opCache' = IF hit \/ res.t # "Surreal" THEN opCache
                      ELSE opCache @@ (key :> res)
        /\ UNCHANGED <<stack, result, rdCache, rrCache, specific, ret, heap, sysVars>>

\* X / Y for a plain Game X: Game.__truediv__ is G * H._inverse(), and
\* Game._inverse raises
GameDivide(X, Y) ==
    /\ calls < MaxCalls
    /\ calls' = calls + 1
    /\ op' = "divide"
    /\ g' = X.G /\ h' = Y.G /\ k' = zero
    /\ out' = [tx |-> X.t, ty |-> Y.t, res |-> Raise("NotImplementedError"),
               quotient |-> <<>>, calls |-> 0]
    /\ UNCHANGED <<stack, result, rdCache, rrCache, specific, ret, heap, opCache, sysVars>>

SurrealNext ==
    \/ \E value \in ValuesHanded : FromValue(value)
    \/ \E X \in Surreals : \E Y \in Surreals \cup SurrealCopies : Divide(X, Y)
    \/ \E X \in SurrealCopies : \E Y \in Surreals \cup SurrealCopies : GameDivide(X, Y)

SurrealSpec == Init /\ [][SurrealNext]_vars

\* the values handed to Game(v): the numbers, and values that are no dyadic
\* rational, or one with a denominator at or past the limit
ConstructorValues ==
    NumberValues \cup {<<1, 3>>, <<2, 3>>, <<1, 4>>, <<3, 8>>,
                       <<1, MaxDenominator>>, <<1, 2 * MaxDenominator>>}

\* Game(v) for a number v
Construct(v) ==
    /\ op = "none"
    /\ op' = "construct"
    /\ g' = Game(v).G /\ h' = zero /\ k' = zero
    /\ out' = [value |-> v, game |-> Game(v), calls |-> GameCalls(v)]
    /\ UNCHANGED <<canonVars, opCache, sysVars>>

\* Surreal.from_value(a) >=, ==, +, * Surreal.from_value(b), next to the same
\* operators of Game on Game(a) and Game(b); >=, + and * of Surreal store
\* what they return in their lru_caches
SurrealAlgebra(a, b) ==
    LET X == from_value(ExactValue(a)).obj
        Y == from_value(ExactValue(b)).obj
        ge == LruCall(CacheKey("Surreal.__ge__", X.G, Y.G), ObjGe(X, Y), <<>>)
        sum == LruCall(CacheKey("Surreal.__add__", X.G, Y.G), SurrealAdd(X, Y), <<>>)
        prod == LruCall(CacheKey("Surreal.__mul__", X.G, Y.G), SurrealMul(X, Y), <<>>)
    IN  /\ op = "none"
        /\ op' = "surreal_algebra"
        /\ g' = X.G /\ h' = Y.G /\ k' = zero
        /\ out' = [a |-> a, b |-> b, nx |-> X.n, ny |-> Y.n,
                   ge |-> ge.res, eq |-> TypedEq(X, Y), sum |-> sum.res, prod |-> prod.res,
                   game_ge |-> Ge(Game(a).G, Game(b).G),
                   game_eq |-> Eq(Game(a).G, Game(b).G),
                   game_sum |-> Add(Game(a).G, Game(b).G),
                   game_prod |-> Mul(Game(a).G, Game(b).G)]
        /\ opCache' = ge.cache @@ sum.cache @@ prod.cache
        /\ UNCHANGED <<canonVars, sysVars>>

\* Switch.from_mean_and_temperature(mean, temperature) for two numbers: the
\* left option is the Surreal mean + temperature, the right option is
\* mean - temperature, which Game.__sub__ computes as mean + (-temperature)
from_mean_and_temperature(mean, temperature) ==
    LET m == from_value(ExactValue(mean)).obj
        t == from_value(ExactValue(temperature)).obj
    IN  Switch(MkGame({SurrealAdd(m, t).G}, {Add(m.G, Neg(t.G))}))

\* the Nimbers, Surreals and Switches that come from Nimber(n), from
\* Surreal.from_value, from Switch.from_mean_and_temperature and from
\* make_specific of a canonical form
SpecificObjects ==
    {X \in {NimberObj(n) : n \in 0..MaxNimber}
             \cup {from_value(ExactValue(v)).obj : v \in NumberValues}
             \cup UNION {from_mean_and_temperature(mean, temperature) :
                            mean \in NumberValues, temperature \in NumberValues}
             \cup UNION {UNION {make_specific(cG) : cG \in canonical(G)} : G \in OperandsG}
       : X.t \in {"Nimber", "Surreal", "Switch"}}

\* the properties of X, next to those of Game on the option sets of X
Classify(X) ==
    /\ op = "none"
    /\ op' = "classify"
    /\ g' = X.G /\ h' = zero /\ k' = zero
    /\ out' = [t |-> X.t, n |-> X.n, hard |-> Properties(X), generic |-> GameProperties(X.G)]
    /\ UNCHANGED <<canonVars, opCache, sysVars>>

\* ------------------------------------------------------------------------
\* lattice.all_games_gen(n).  lattice.py takes Game from the flat module
\* ludology/game.py, whose objects have _left and _right and no property
\* left, and canonicalize from tools.py, which reads cG.left first of all.
\* ------------------------------------------------------------------------
\* tools.canonicalize(G) for a Game of the flat module: cG.left raises
canonicalize(G) == Raise("AttributeError")

\* lattice.is_antichain
is_antichain(stuff) == \A x \in stuff : \A y \in stuff \ {x} : Fuzzy(x, y)

\* all_games_gen(n): the set returned, or the exception that leaves it
RECURSIVE all_games_gen(_)
all_games_gen(n) ==
    IF n = 0 THEN [games |-> {zero}, raised |-> "none"]
    ELSE LET priors == all_games_gen(n - 1)
             antichains == {a \in SUBSET priors.games : is_antichain(a)}
             news == {canonicalize(MkGame(a, b)) : a \in antichains, b \in antichains}
         IN  IF priors.raised # "none" THEN priors
             ELSE IF \E new \in news : ~Returns(new)
             THEN [games |-> {}, raised |-> "AttributeError"]
             ELSE [games |-> priors.games \cup {new.G : new \in news}, raised |-> "none"]

AllGamesGen(n) ==
    /\ op = "none"
    /\ op' = "all_games_gen"
    /\ out' = [n |-> n, games |-> all_games_gen(n).games, raised |-> all_games_gen(n).raised]
    /\ UNCHANGED <<g, h, k, canonVars, opCache, sysVars>>

TypedNext ==
    \/ \E n \in 0..MaxDay : AllGamesGen(n)
    \/ \E X \in SpecificObjects : Classify(X)
    \/ \E a \in NumberValues :
          \E b \in {v \in NumberValues : birthday(Game(a).G) * birthday(Game(v).G) <= MaxDays} :
             SurrealAlgebra(a, b)
    \/ \E X \in TypedOperands :
          \E Y \in {Z \in TypedOperands :
                       SamePackage(X, Z) /\ (Z.G = X.G \/ Z.G \in OperandsH)} :
             HashAndCompare(X, Y)
    \/ \E v \in ConstructorValues : Construct(v)

TypedSpec == Init /\ [][TypedNext]_vars

\* ------------------------------------------------------------------------
\* sums.disjunctive(G, H, canon), with no cache anywhere.  The name
\* disjunctive is the function wrapped by canonize, so the calls it makes on
\* the options run with canon = True and hand back canonical_form of each
\* partial sum, specialised by make_specific; canon = False leaves only the
\* outermost Game as it was built.  A call yields the set of the objects it
\* can return, or the exception make_specific raises.
\* ------------------------------------------------------------------------
\* canonical_form(G) for the option sets G
canonical_form(G) == UNION {make_specific(cG) : cG \in canonical(G)}

RECURSIVE disjunctive(_, _, _)
disjunctive(G, H, canon) ==
    LET lefts == {<<G_L, H>> : G_L \in G.L} \cup {<<G, H_L>> : H_L \in H.L}
        rights == {<<G_R, H>> : G_R \in G.R} \cup {<<G, H_R>> : H_R \in H.R}
        pairs == lefts \cup rights
        picks == {f \in [pairs -> UNION {disjunctive(p[1], p[2], TRUE) : p \in pairs}] :
                     \A p \in pairs : f[p] \in disjunctive(p[1], p[2], TRUE)}
        game(f) == MkGame({f[p].G : p \in lefts}, {f[p].G : p \in rights})
    IN  UNION { IF \E p \in pairs : ~Returns(f[p])
                THEN {f[p] : p \in {q \in pairs : ~Returns(f[q])}}
                ELSE IF canon THEN canonical_form(game(f))
                ELSE {Obj(game(f), "Game", <<>>)}
                : f \in picks }

\* canonical_form(X) for what disjunctive returned; an exception goes on
CanonicalFormOf(X) == IF Returns(X) THEN canonical_form(X.G) ELSE {X}

\* canonical_form(disjunctive(G, H)), canonical_form(disjunctive(G, H,
\* canon=False)), disjunctive(G, 0) and disjunctive(0, G)
Disjunctive(G, H) ==
    /\ op = "none"
    /\ op' = "disjunctive"
    /\ g' = G /\ h' = H /\ k' = zero
    /\ \E a \in UNION {CanonicalFormOf(X) : X \in disjunctive(G, H, TRUE)} :
       \E b \in UNION {CanonicalFormOf(X) : X \in disjunctive(G, H, FALSE)} :
       \E right_zero \in disjunctive(G, zero, TRUE) :
       \E left_zero \in disjunctive(zero, G, TRUE) :
          out' = [canon |-> a, no_canon |-> b, right_zero |-> right_zero,
                  left_zero |-> left_zero]
    /\ UNCHANGED <<canonVars, opCache, sysVars>>

\* the impartial games handed to canonical_form
ImpartialOperands ==
    {MkGame(options, options) : options \in SUBSET {Nimber(n) : n \in 0..MaxNimber}}

\* canonical_form(G) of an impartial G, and canonical_form of its options
ImpartialForm(G) ==
    /\ op = "none"
    /\ op' = "impartial_form"
    /\ g' = G /\ h' = zero /\ k' = zero
    /\ out' = [forms |-> canonical_form(G),
               options |-> UNION {canonical_form(G_L) : G_L \in G.L}]
    /\ UNCHANGED <<canonVars, opCache, sysVars>>

SumNext ==
    \/ \E G \in OperandsG : \E H \in OperandsH : Disjunctive(G, H)
    \/ \E G \in ImpartialOperands : ImpartialForm(G)

SumSpec == Init /\ [][SumNext]_vars

\* ------------------------------------------------------------------------
\* utils.recursion_limit(limit), a generator under @contextmanager: the code
\* up to the yield runs when the with-block is entered, the code after it when
\* the body returns; an exception of the body is thrown into the generator at
\* the yield, which no try statement surrounds
\* ------------------------------------------------------------------------
\* with recursion_limit(limit): entered at recursion depth `depth`;
\* sys.setrecursionlimit refuses a limit below 1 (ValueError) and a limit the
\* current depth has reached already (RecursionError)
EnterBlock(limit, depth) ==
    LET raised == IF limit < 1 THEN "ValueError"
                  ELSE IF depth >= limit THEN "RecursionError"
                  ELSE "none"
    IN  /\ Len(old_limits) < MaxBlocks
        /\ depth < recursionlimit
        /\ op' = "enter"
        /\ out' = [limit |-> limit, depth |-> depth, raised |-> raised]
        /\ IF raised = "none"
           THEN /\ old_limits' = Append(old_limits, recursionlimit)
                /\ recursionlimit' = limit
           ELSE UNCHANGED sysVars
        /\ UNCHANGED <<canonVars, g, h, k, opCache>>

\* the body returns: the generator goes on after the yield
BodyReturns ==
    /\ old_limits # <<>>
    /\ op' = "leave"
    /\ out' = [old_limit |-> old_limits[Len(old_limits)], raised |-> "none"]
    /\ recursionlimit' = old_limits[Len(old_limits)]
    /\ old_limits' = SubSeq(old_limits, 1, Len(old_limits) - 1)
    /\ UNCHANGED <<canonVars, g, h, k, opCache>>

\* the body raises, a RecursionError say: the exception comes out of the yield
\* and leaves the generator, and the with-block, by the same way
BodyRaises ==
    /\ old_limits # <<>>
    /\ op' = "leave"
    /\ out' = [old_limit |-> old_limits[Len(old_limits)], raised |-> "RecursionError"]
    /\ old_limits' = SubSeq(old_limits, 1, Len(old_limits) - 1)
    /\ UNCHANGED <<recursionlimit, canonVars, g, h, k, opCache>>

LimitNext ==
    \/ \E limit \in 0..MaxLimit : \E depth \in 0..MaxLimit : EnterBlock(limit, depth)
    \/ BodyReturns
    \/ BodyRaises

LimitSpec == Init /\ [][LimitNext]_vars
\* ------------------------------------------------------------------------
\* Properties
\* ------------------------------------------------------------------------
CanonicalInputs == DOMAIN result

Canonical(G) == result[G]

\* C1: two Games are value-equal iff canonical_form returns structurally
\* identical games for them.
CanonicalUniqueness ==
    \A G \in CanonicalInputs : \A H \in CanonicalInputs :
        Eq(G, H) <=> Canonical(G) = Canonical(H)

\* the Games for which canonical_form(G) has an object to return
Specified == {G \in CanonicalInputs : Canonical(G) \in DOMAIN specific}

CanonicalForm(G) == specific[Canonical(G)]

\* C2: whenever canonical_form(G) returns, canonical_form(G) == G, and
\* canonical_form(canonical_form(G)) == canonical_form(G), by the == of the
\* objects returned.
CanonicalFormPreservesValue ==
    /\ \A G \in CanonicalInputs : Eq(Canonical(G), G)
    /\ \A G \in Specified :
          /\ ObjEq(CanonicalForm(G), Obj(G, "Game", <<>>))
          /\ Canonical(G) \in Specified
                => ObjEq(CanonicalForm(Canonical(G)), CanonicalForm(G))

\* C3: G >= H is true exactly when no right option G_R of G has H >= G_R and
\* no left option H_L of H has H_L >= G; 0 >= 0 is true.
GeContract ==
    op = "compare" =>
        /\ out.ge <=> /\ ~\E G_R \in g.R : Ge(h, G_R)
                      /\ ~\E H_L \in h.L : Ge(H_L, g)
        /\ (g = zero /\ h = zero) => out.ge

\* G >= H decided with options on both sides in play
GeDecidedByOptions ==
    /\ op = "compare"
    /\ g.R # {} /\ h.L # {}
    /\ out.ge

\* C4: exactly one of G < H, G == H, G > H, G | H is true, each fixed by the
\* pair (G >= H, H >= G); G > H implies not H >= G, and G | H iff H | G.
OutcomeClasses ==
    op = "compare" =>
        /\ Cardinality({c \in {"lt", "eq", "gt", "fuzzy"} : out[c]}) = 1
        /\ out.le <=> Ge(h, g)
        /\ out.eq <=> (out.ge /\ out.le)
        /\ out.gt <=> (out.ge /\ ~out.le)
        /\ out.lt <=> (out.le /\ ~out.ge)
        /\ out.fuzzy <=> (~out.ge /\ ~out.le)
        /\ out.gt => ~Ge(h, g)
        /\ out.fuzzy <=> out.ror

\* two structurally different games that are confused with each other
FuzzyPairCompared ==
    /\ op = "compare"
    /\ g # h
    /\ out.fuzzy

\* C5: G + H is value-equal to the disjoint sum {G+H_L, G_L+H | G+H_R, G_R+H}.
AddIsDisjointSum ==
    op = "plus" => Eq(out.sum, DisjointSum(g, h))

\* C6: G + 0 == G and G + (-G) == 0, with G - H computed as G + (-H), so that
\* G - G == 0.
AdditiveIdentityAndInverse ==
    op = "minus" =>
        /\ Eq(out.addzero, g)
        /\ Eq(out.addneg, zero)
        /\ out.sub = Add(g, Neg(h))
        /\ Eq(out.subself, zero)

\* G + (-G) for a G that is not a number-form: the sum is not the empty game
InverseOfNonNumber ==
    /\ op = "minus"
    /\ ~is_number(g)
    /\ out.addneg # zero

\* C7: G + H == H + G and (G + H) + K == G + (H + K) under game-value equality.
AddCommutativeAssociative ==
    /\ op = "plus" => Eq(out.sum, out.commuted) /\ Eq(out.sum, out.reflected)
    /\ op = "plus_assoc" => Eq(out.left, out.right)

\* three non-zero operands, one of them not a number-form
ThreeOperandsAdded ==
    /\ op = "plus_assoc"
    /\ g # zero /\ h # zero /\ k # zero
    /\ ~is_number(g)

\* C8: -G has left options {-G_R} and right options {-G_L}, -0 is 0, a Nimber
\* is its own negative, and -(-G) == G.
NegationInvolution ==
    /\ op = "negate" =>
          /\ out.neg.L = {Neg(G_R) : G_R \in g.R}
          /\ out.neg.R = {Neg(G_L) : G_L \in g.L}
          /\ g = zero => out.neg = zero
          /\ Eq(out.negneg, g)
    /\ op = "negate_nimber" =>
          /\ out.neg = g
          /\ Eq(out.neg, Neg(g))

\* a game with options on one side only has been negated twice
OneSidedGameNegated ==
    /\ op = "negate"
    /\ g.L # {} /\ g.R = {}
    /\ out.neg.L = {} /\ out.neg.R # {}

MemoizationTransparent ==
    /\ (stack # <<>> /\ Top.fn = "canonical" /\ Top.pc = "remove_dominated"
          /\ LookupHit(rdCache, Top.G, Top.cG))
       => remove_dominated(Top.cG) = {Top.cG}
    /\ (stack # <<>> /\ Top.fn = "canonical" /\ Top.pc = "replace_reversible"
          /\ LookupHit(rrCache, Top.G, Top.cG))
       => replace_reversible(Top.cG) = {Top.cG}
    /\ \A G \in CanonicalInputs : Canonical(G) \in canonical(G)

\* C11: no call changes an object a caller holds: an argument (or an option of
\* one) keeps the option sets it was made with, and a Game that canonical has
\* returned keeps the option sets it was returned with.
GamesAreImmutable ==
    /\ \A G \in {id[2] : id \in DOMAIN heap} :
          Argument(G) \in DOMAIN heap => heap[Argument(G)] = G
    /\ \A G \in CanonicalInputs : heap[copy(G)] = Canonical(G)
    /\ \A id \in DOMAIN heap : id[1] = "Game" => heap[id] = id[2]

\* canonical has rewritten the copy of an argument, and has returned it
ArgumentRewrittenInCopy ==
    \E G \in CanonicalInputs :
        /\ Canonical(G) # G
        /\ heap[Argument(G)] = G
        /\ heap[copy(G)] # G

\* the type the reduced game G is to be given
SpecificType(G) ==
    IF is_number(G) THEN "Surreal"
    ELSE IF is_impartial(G) THEN "Nimber"
    ELSE IF is_switch(G) THEN "Switch"
    ELSE "Game"

\* C12: make_specific returns a Surreal, else a Nimber, else a Switch, else a
\* Game with specialised options, by the tests on the reduced game, and the
\* result has the option sets of the reduced game.
SpecializationByType ==
    /\ ret.t \in {"Surreal", "Nimber", "Switch", "Game"}
    /\ \A G \in DOMAIN specific :
          /\ specific[G].G = G
          /\ specific[G].t = SpecificType(G)
          /\ specific[G].t = "Game" =>
                \A o \in Options(G) : OptionType(specific[G]) = specific[o].t


\* C13: the hash of a game depends on its option sets only, whatever subtype
\* wraps them, so two objects with the same option sets have the same hash;
\* and two objects with the same option sets are >= each other and ==.
StructuralHashing ==
    (op = "hash" /\ g = h) =>
        /\ out.hx = out.hy
        /\ out.ge /\ out.le
        /\ out.eq

\* C14: the product of two number games is the number game of the product,
\* Game(a) * Game(b) == Game(a * b), and its options are the four families
\* G_L*H + G*H_L - G_L*H_L, G_R*H + G*H_R - G_R*H_R (left) and
\* G_L*H + G*H_R - G_L*H_R, G_R*H + G*H_L - G_R*H_L (right).
MultiplicationOfNumbers ==
    /\ op = "multiply" => out.number.t = "Game" /\ Eq(out.prod, out.number.G)
    /\ op \in {"multiply", "multiply_games"} =>
        /\ out.prod.L =
              {Sub(Add(Mul(G_L, h), Mul(g, H_L)), Mul(G_L, H_L)) : G_L \in g.L, H_L \in h.L}
                 \cup {Sub(Add(Mul(G_R, h), Mul(g, H_R)), Mul(G_R, H_R)) : G_R \in g.R, H_R \in h.R}
        /\ out.prod.R =
              {Sub(Add(Mul(G_L, h), Mul(g, H_R)), Mul(G_L, H_R)) : G_L \in g.L, H_R \in h.R}
                 \cup {Sub(Add(Mul(G_R, h), Mul(g, H_L)), Mul(G_R, H_L)) : G_R \in g.R, H_L \in h.L}

\* a half times a half: both operands have left and right options
HalfTimesHalf ==
    /\ op = "multiply" /\ out.a = Fraction(1, 2) /\ out.b = Fraction(1, 2)
    /\ out.number.G = MkGame({zero}, {MkGame({zero}, {one})})
    /\ out.prod # out.number.G

\* C15: Nimber(m) + Nimber(n) returns the Nimber with index m XOR n, on the
\* option sets of Nimber(m XOR n), and that result is equal in value to the
\* sum Game.__add__ builds from the two option trees; Nimber(m) + Game(Nimber(n))
\* is equal in value to Nimber(m XOR n) too.
NimberAddition ==
    op = "nimber_add" =>
        /\ Eq(out.res.G, Nimber(Xor(out.m, out.n)))
        /\ Eq(out.res.G, out.general)
        /\ out.ty = "Nimber" =>
              /\ out.res.t = "Nimber"
              /\ out.res.n = <<Xor(out.m, out.n)>>
              /\ out.res.G = Nimber(Xor(out.m, out.n))

\* C16: Nimber(m) * Nimber(n) returns the Nimber with index nimprod(m, n) =
\* mex({nimprod(a, n) XOR nimprod(m, b) XOR nimprod(a, b) : a < m, b < n}), on
\* the option sets of that Nimber, and the result is equal in value to the
\* product Game.__mul__ builds from the two option trees; Nimber(m) *
\* Game(Nimber(n)) is equal in value to it too.
NimberMultiplication ==
    op = "nimber_mul" =>
        LET nimprod == _mul(out.m, out.n)
        IN  /\ nimprod \notin {Xor(Xor(_mul(a, out.n), _mul(out.m, b)), _mul(a, b)) :
                                 a \in 0..(out.m - 1), b \in 0..(out.n - 1)}
            /\ \A i \in 0..(nimprod - 1) :
                  i \in {Xor(Xor(_mul(a, out.n), _mul(out.m, b)), _mul(a, b)) :
                            a \in 0..(out.m - 1), b \in 0..(out.n - 1)}
            /\ Eq(out.res.G, Nimber(nimprod))
            /\ Eq(out.res.G, out.general)
            /\ out.ty = "Nimber" =>
                  /\ out.res.t = "Nimber"
                  /\ out.res.n = <<nimprod>>
                  /\ out.res.G = Nimber(nimprod)
\* C17: Game(v) for a number v: 0 is the empty game, a positive integer is
\* {v-1 | }, a negative integer { | v+1}, and a dyadic rational with denominator
\* d <= 1024 is {v - 1/d | v + 1/d}; the Game is a number-form, in canonical
\* form already, and Game(1/4) has birthday 3. A value whose denominator is
\* past 1024 (with every value that is no dyadic rational) raises ValueError
\* before any option is constructed.
NumericConstruction ==
    op = "construct" =>
        LET v == out.value
            d == FloatDenominator(v)
            less == Game(FractionSub(v, Fraction(1, d)))
            more == Game(FractionAdd(v, Fraction(1, d)))
        IN  /\ (v[2] = 1 /\ v[1] = 0) => out.game = Obj(zero, "Game", <<>>)
            /\ (v[2] = 1 /\ v[1] > 0) => out.game = Obj(MkGame({less.G}, {}), "Game", <<>>)
            /\ (v[2] = 1 /\ v[1] < 0) => out.game = Obj(MkGame({}, {more.G}), "Game", <<>>)
            /\ (v[2] > 1 /\ d <= MaxDenominator)
                  => out.game = Obj(MkGame({less.G}, {more.G}), "Game", <<>>)
            /\ (v[2] > 1 /\ d > MaxDenominator)
                  => out.game = Raise("ValueError") /\ out.calls = 1
            /\ out.game.t = "Game"
                  => /\ is_number(out.game.G)
                     /\ canonical(out.game.G) = {out.game.G}
            /\ v = <<1, 4>> => birthday(out.game.G) = 3

\* Game(1/2048) has raised ValueError
DenominatorPastTheLimit ==
    /\ op = "construct"
    /\ out.value = <<1, 2 * MaxDenominator>>
    /\ out.game = Raise("ValueError")
\* C18: every request to build a Surreal from a rational that is not dyadic
\* or whose denominator is past 1024, through from_value with a float or an
\* exact Fraction or through the quotient of a division of Surreals, raises
\* ValueError at once: from_value is entered once and builds no option.
InvalidConstructionFailsFast ==
    /\ (op = "from_value"
            /\ (~IsPowerOfTwo(FractionOfValue(out.value)[2])
                   \/ FractionOfValue(out.value)[2] > MaxDenominator))
          => out.res = Raise("ValueError") /\ out.calls = 1
    /\ (op = "divide" /\ out.tx = "Surreal" /\ out.ty = "Surreal" /\ out.quotient # <<>>
            /\ (~IsPowerOfTwo(out.quotient[2]) \/ out.quotient[2] > MaxDenominator))
          => out.res = Raise("ValueError") /\ out.calls = 1

\* C19: G / H with H no Surreal, a plain Game that is a number and a Surreal G
\* included, raises NotImplementedError and returns no game.
GeneralDivisionUnsupported ==
    (op = "divide" /\ out.ty # "Surreal") => out.res = Raise("NotImplementedError")
\* C20: for dyadic rationals a and b, from_value(a) >= from_value(b) iff
\* a >= b; ==, + and * of the two Surreals give what the operators of Game
\* give on Game(a) and Game(b), in truth value and in game value; and the
\* cached n of a Surreal is the number its option tree stands for.
SurrealClosedForms ==
    /\ op = "surreal_algebra" =>
          /\ out.ge <=> FractionGe(out.a, out.b)
          /\ out.ge <=> out.game_ge
          /\ out.eq <=> out.game_eq
          /\ out.sum.t = "Surreal" /\ Eq(out.sum.G, out.game_sum)
          /\ out.prod.t = "Surreal" /\ Eq(out.prod.G, out.game_prod)
          /\ out.nx = out.a /\ Eq(g, Game(out.nx).G)
          /\ out.ny = out.b /\ Eq(h, Game(out.ny).G)
    /\ (op = "hash" /\ out.tx = "Surreal") => Eq(g, Game(out.nx).G)
RecursionLimitRestored ==
    /\ (op = "enter" /\ out.raised = "none") => recursionlimit = out.limit
    /\ op = "leave" => recursionlimit = out.old_limit
\* C23: canonical_form(disjunctive(G, H)) and canonical_form(disjunctive(G, H,
\* canon=False)) are returned and are ==, and disjunctive(G, 0) == G ==
\* disjunctive(0, G).
DisjunctivePathIndependent ==
    op = "disjunctive" =>
        /\ Returns(out.canon) /\ Returns(out.no_canon)
        /\ ObjEq(out.canon, out.no_canon)
        /\ Returns(out.right_zero) /\ ObjEq(out.right_zero, Obj(g, "Game", <<>>))
        /\ Returns(out.left_zero) /\ ObjEq(out.left_zero, Obj(g, "Game", <<>>))
\* C24: all_games_gen(n) returns one representative of every value born by
\* day n: {0} for n = 0, {0, 1, -1, *} for n = 1, 22 games for n = 2; no two
\* members are equal in value, and every Game with birthday <= n is equal in
\* value to a member.
EnumerationByBirthday ==
    op = "all_games_gen" =>
        /\ out.raised = "none"
        /\ out.n = 0 => out.games = {zero}
        /\ out.n = 1 => out.games = {zero, one, minus_one, star}
        /\ out.n = 2 => Cardinality(out.games) = 22
        /\ \A x \in out.games : \A y \in out.games : Eq(x, y) => x = y
        /\ \A G \in OperandsG : birthday(G) <= out.n => \E x \in out.games : Eq(x, G)
\* K has no dominated and no reversible option, at the root and below
RECURSIVE FullyReduced(_)
FullyReduced(K) ==
    /\ \A K_L \in K.L : \A other \in K.L : ~Lt(K_L, other)
    /\ \A K_R \in K.R : \A other \in K.R : ~Gt(K_R, other)
    /\ \A K_L \in K.L : \A K_LR \in K_L.R : ~Le(K_LR, K)
    /\ \A K_R \in K.R : \A K_RL \in K_R.L : ~Ge(K_RL, K)
    /\ \A o \in Options(K) : FullyReduced(o)

\* C25: the game K that canonical_form returns is fully reduced: at the root
\* and at every subposition no left option is less than another left option,
\* no right option greater than another right option, no left option has a
\* right option <= K and no right option has a left option >= K.
CanonicalFormFullyReduced ==
    \A G \in CanonicalInputs : FullyReduced(Canonical(G))
\* C26: at every iteration of the loop of canonical the game under reduction
\* is equal in value to the input G.  remove_dominated deletes a left option
\* only when a remaining left option is strictly greater (a right option when
\* a remaining one is strictly less) and empties no option set that had an
\* option; replace_reversible puts, for a left option G_L with a right option
\* G_LR <= G, the left options of one such G_LR in place of G_L and keeps G_L
\* when there is none, and the same on the right.
RewritePassesKeepValue ==
    /\ [](\A i \in 1..Len(stack) :
             stack[i].fn = "canonical" => Eq(stack[i].cG, stack[i].G))
    /\ [][Running("canonical", "remove_dominated") =>
             LET old == Top.cG
                 new == stack'[Len(stack')].cG
             IN  /\ new.L \subseteq old.L /\ new.R \subseteq old.R
                 /\ \A g_ \in old.L \ new.L : \E G_L \in new.L : Lt(g_, G_L)
                 /\ \A g_ \in old.R \ new.R : \E G_R \in new.R : Gt(g_, G_R)
                 /\ (old.L # {} => new.L # {}) /\ (old.R # {} => new.R # {})
                 /\ Eq(new, old)]_vars
    /\ [][Running("canonical", "replace_reversible") =>
             LET old == Top.cG
                 new == stack'[Len(stack')].cG
                 half == MkGame(new.L, old.R)
             IN  /\ \A G_L \in old.L : ReversingLeft(old, G_L) = {} => G_L \in new.L
                 /\ \A G_LRL \in new.L \ old.L :
                       \E G_L \in old.L : \E G_LR \in ReversingLeft(old, G_L) : G_LRL \in G_LR.L
                 /\ \A G_L \in old.L \ new.L :
                       \E G_LR \in ReversingLeft(old, G_L) : G_LR.L \subseteq new.L
                 /\ \A G_R \in old.R : ReversingRight(half, G_R) = {} => G_R \in new.R
                 /\ \A G_RLR \in new.R \ old.R :
                       \E G_R \in old.R : \E G_RL \in ReversingRight(half, G_R) : G_RLR \in G_RL.R
                 /\ \A G_R \in old.R \ new.R :
                       \E G_RL \in ReversingRight(half, G_R) : G_RL.R \subseteq new.R
                 /\ Eq(new, old)]_vars

\* a pass of replace_reversible has put the left options of G_LR in place of
\* a reversible left option, with the game under reduction not yet the result
ReversibleOptionReplaced ==
    /\ Running("canonical", "while")
    /\ Top.old # zero
    /\ \E G_L \in Top.old.L :
          /\ G_L \notin Top.cG.L
          /\ \A other \in Top.old.L : ~Lt(G_L, other)
          /\ ReversingLeft(Top.old, G_L) # {}
\* C27: G >= H iff (G - H) >= 0, G == H iff (G - H) == 0 and G | H iff
\* (G - H) | 0, with G - H computed by - and +; and G == H implies
\* G + K == H + K.
OrderIsSignOfDifference ==
    op = "difference" =>
        /\ out.ge <=> out.diff_ge
        /\ out.eq <=> out.diff_eq
        /\ out.fuzzy <=> out.diff_fuzzy
        /\ out.eq => out.sums_eq
\* C28: G >= H and H >= K imply G >= K; == is reflexive, symmetric and
\* transitive; < is irreflexive and transitive.
GeTransitive ==
    op = "order" =>
        /\ (out.ge[<<g, h>>] /\ out.ge[<<h, k>>]) => out.ge[<<g, k>>]
        /\ out.eq[<<g, g>>]
        /\ out.eq[<<g, h>>] <=> out.eq[<<h, g>>]
        /\ (out.eq[<<g, h>>] /\ out.eq[<<h, k>>]) => out.eq[<<g, k>>]
        /\ ~out.lt[<<g, g>>]
        /\ out.lt[<<g, h>>] => ~out.lt[<<h, g>>]
        /\ (out.lt[<<g, h>>] /\ out.lt[<<h, k>>]) => out.lt[<<g, k>>]

\* a strict chain G < H < K through games that are not number-forms
StrictChainCompared ==
    /\ op = "order"
    /\ out.lt[<<g, h>>] /\ out.lt[<<h, k>>]
    /\ ~is_number(g) /\ ~is_number(h)
\* C29: left_stop(G) and right_stop(G) return a number for every Game G, a
\* Game that is not a number-form and has an empty side included, and
\* is_numberish and is_infinitesimal answer with a boolean and never raise.
StopsAreTotal ==
    op = "stops" =>
        /\ \A st \in out.left_stop \cup out.right_stop : st # StopRaised /\ is_number(st.g)
        /\ \A a \in out.is_numberish \cup out.is_infinitesimal : a.raises = "none"
\* C30: for an impartial G, canonical_form(G) is the Nimber whose index is
\* the mex of the indices of the canonical forms of G's options, and its
\* option sets are {*0, ..., *(k - 1)} on both sides for that index k.
SpragueGrundy ==
    op = "impartial_form" =>
        /\ \A Y \in out.options : Y.t = "Nimber"
        /\ \A X \in out.forms :
              /\ X.t = "Nimber"
              /\ X.n = <<mex({Y.n[1] : Y \in out.options})>>
              /\ X.G = Nimber(X.n[1])
====
